---- MODULE Spec2Model ----
(***************************************************************************)
(* The TrendingPosts polling component.  The repository holds two versions  *)
(* of the component: frontend/src/components/TrendingPosts.js and the copy  *)
(* in unnamed/part_000.  Both are modelled; `variant` says which one runs.  *)
(***************************************************************************)
EXTENDS Integers, Sequences, FiniteSets, TLC

\* ---------------------------------------------------------------- bounds
MaxCycles == 3          \* fetch cycles started in one behaviour
MaxTime == 600000       \* the clock stops here (ms)
TimeStep == 150000      \* largest single advance of the clock (ms)

\* ------------------------------------------------------ program constants
IntervalMs == 300000
DefaultUrl == "http://127.0.0.1:5001"
FallbackText == "Could not load trends."
ConfigErrorText == "REACT_APP_BACKEND_URL not set in .env"
SchemaErrorText == "Unexpected backend response"

Named == "TrendingPosts.js"
Unnamed == "part_000"
Versions == {Named, Unnamed}

\* ------------------------------------------------------------- JS values
Undef == "<undefined>"
Falsy(s) == s \in {Undef, ""}

JsArray(s) == [type |-> "array", elems |-> s]
JsObject == [type |-> "object", elems |-> <<>>]
IsArray(v) == v.type = "array"

NullDate == [obj |-> 0, at |-> 0]

\* elements of a payload: TrendItem objects (score in thousandths, NoScore
\* when the field is absent) and a bare string
NoScore == -1
Item1 == [kind |-> "object", text |-> "hello", sentiment |-> "positive", score |-> 874]
Item2 == [kind |-> "object", text |-> "meh", sentiment |-> "neutral", score |-> NoScore]
Item3 == [kind |-> "string", text |-> "post", sentiment |-> Undef, score |-> NoScore]
ArrayPayloads == {<<>>, <<Item1>>, <<Item2, Item1>>, <<Item3>>}

\* what the environment may answer to one GET /api/trending
Responses ==
    {[kind |-> "http2xx", data |-> JsArray(p), respError |-> Undef, message |-> Undef] :
        p \in ArrayPayloads}
    \cup {[kind |-> "http2xx", data |-> JsObject, respError |-> Undef, message |-> Undef],
          [kind |-> "httpError", data |-> JsObject, respError |-> "db down",
           message |-> "Request failed with status code 500"],
          [kind |-> "httpError", data |-> JsObject, respError |-> Undef,
           message |-> "Request failed with status code 500"],
          [kind |-> "network", data |-> JsObject, respError |-> Undef,
           message |-> "Network Error"]}

ConfigError == [kind |-> "config", data |-> JsObject, respError |-> Undef,
                message |-> ConfigErrorText]
SchemaError == [kind |-> "schema", data |-> JsObject, respError |-> Undef,
                message |-> SchemaErrorText]
NoError == [kind |-> "none", data |-> JsObject, respError |-> Undef, message |-> Undef]
NoResponse == [kind |-> "none", data |-> JsObject, respError |-> Undef, message |-> Undef]

Min(S) == CHOOSE x \in S : \A y \in S : x <= y

VARIABLES
    variant,        \* which version of the component is running
    envUrl,         \* process.env.REACT_APP_BACKEND_URL
    mounted,        \* the component instance is in the tree
    trends, isLoading, error, lastUpdated,     \* the four useState cells
    effectDep,      \* identity of fetchTrends the effect last ran with (-1: never)
    effectTimer,    \* intervalId held by the last effect run's cleanup (0: none)
    timers,         \* live interval timers
    timerSeq,       \* last interval id handed out
    pending,        \* fetch cycles suspended at `await axios.get`
    started,        \* number of fetchTrends calls so far
    now,            \* the clock (ms)
    \* history variables
    httpIssued,     \* number of GETs issued
    lastStart,      \* time of the latest fetchTrends call
    startCause,     \* what made the latest fetchTrends call
    completed,      \* number of cycles that ran to their end
    lastResolved,   \* outcome of the cycle that ended most recently
    lastAccepted,   \* payload most recently passed to setTrends by the try block
    okCount,        \* number of cycles that ended through the try block
    snap,           \* the four state cells at the moment of unmount
    unmountAt,      \* time of unmount
    doneAfterUnmount, \* a cycle ended after unmount
    soloStart       \* no other cycle was in flight at the latest fetchTrends call

vars == <<variant, envUrl, mounted, trends, isLoading, error, lastUpdated,
          effectDep, effectTimer, timers, timerSeq, pending, started, now,
          httpIssued, lastStart, startCause, completed, lastResolved,
          lastAccepted, okCount, snap, unmountAt, doneAfterUnmount, soloStart>>

PollState == <<trends, isLoading, error, lastUpdated>>

\* ------------------------------------------------------- React primitives
\* A useState setter: React drops an update dispatched to a component that
\* is no longer mounted.
DispatchUnguarded(cur, new) == new
Dispatch(cur, new) == IF mounted THEN new ELSE cur

\* clearInterval(intervalId)
clearIntervalLeak(ts, id) == ts
clearInterval(ts, id) == {t \in ts : t.id # id}

\* useCallback(..., deps): the identity of fetchTrends after a render
FetchTrendsId == IF variant = Named THEN lastUpdated.obj ELSE 0

\* ----------------------------------------------------------------- render
\* {trend.sentiment} / {trend.text}: an absent field renders as nothing
Show(x) == IF x = Undef THEN "" ELSE x

\* Number.prototype.toFixed(2) of a score given in thousandths
ToFixed2(m) ==
    LET r == (m + 5) \div 10
    IN [na |-> FALSE, whole |-> r \div 100, cents |-> r % 100]
NotAvailable == [na |-> TRUE, whole |-> 0, cents |-> 0]

\* one <li> of the list
Entry(x) ==
    IF variant = Named
    THEN [sentiment |-> "", text |-> x.text, score |-> NotAvailable]
    ELSE [sentiment |-> Show(x.sentiment), text |-> Show(x.text),
          score |-> IF x.score = NoScore THEN NotAvailable ELSE ToFixed2(x.score)]

\* trends.map(...): the entries in order
ListReversed(t) == [i \in 1..Len(t.elems) |-> Entry(t.elems[Len(t.elems) + 1 - i])]
ListOf(t) == [i \in 1..Len(t.elems) |-> Entry(t.elems[i])]

\* the body of the card for state cells t (trends), l (isLoading), e (error);
\* "crash": the render throws (trends.map on a non-array, or an object
\* rendered as a React child by {trend})
ViewOf(t, l, e) ==
    IF l THEN "loading"
    ELSE IF e # "" THEN "error"
    ELSE IF ~IsArray(t) THEN "crash"
    ELSE IF variant = Unnamed /\ Len(t.elems) = 0 THEN "placeholder"
    ELSE IF variant = Named /\ \E i \in 1..Len(t.elems) : t.elems[i].kind = "object"
         THEN "crash"
    ELSE "list"

\* the header's time stamp: lastUpdated && lastUpdated.toLocaleTimeString()
HeaderOf(u) == IF u.obj # 0 THEN [shown |-> TRUE, at |-> u.at] ELSE [shown |-> FALSE, at |-> 0]

\* a render that throws takes the component out of the tree
Crashes(t, l, e) == mounted /\ ViewOf(t, l, e) = "crash"

\* ------------------------------------------------------------ fetchTrends
\* const apiBase = ...
ApiBase ==
    IF variant = Named
    THEN (IF Falsy(envUrl) THEN DefaultUrl ELSE envUrl)
    ELSE envUrl

\* if (!apiBase) throw ...
ConfigThrows == variant = Unnamed /\ Falsy(ApiBase)

\* first statement of fetchTrends; lu is the lastUpdated its closure holds
LoadingAtStart(lu) ==
    IF variant = Named
    THEN (IF lu = 0 THEN TRUE ELSE isLoading)
    ELSE TRUE

\* what the try block throws for a resolved request (NoError: nothing)
Thrown(resp) ==
    IF resp.kind # "http2xx" THEN resp
    ELSE IF variant = Unnamed /\ ~IsArray(resp.data) THEN SchemaError
    ELSE NoError

\* history only: the response is one the running version takes as a success
Accepted(resp) ==
    /\ resp.kind = "http2xx"
    /\ (variant = Unnamed => IsArray(resp.data))

\* setTrends(response.data)
NextTrendsKeepFirst(cur, data) == IF cur = JsArray(<<>>) THEN data ELSE cur
NextTrends(cur, data) == data

\* the catch block's argument to setError
ErrorText(err) ==
    IF variant = Named
    THEN (IF ~Falsy(err.respError) THEN err.respError ELSE FallbackText)
    ELSE (IF ~Falsy(err.respError) THEN err.respError
          ELSE IF ~Falsy(err.message) THEN err.message
          ELSE FallbackText)

\* finally { setIsLoading(false) }
LoadingAtEndTryOnly(threw, cur) == IF threw THEN cur ELSE FALSE
LoadingAtEnd(threw, cur) == FALSE

\* setLastUpdated(new Date()) is the try block's last statement
LastUpdatedAtEndAlways(threw, cur, fresh) == fresh
LastUpdatedAtEnd(threw, cur, fresh) == IF threw THEN cur ELSE fresh

\* isLoading and error once fetchTrends() has run up to its first suspension
\* (or to its end when it throws before issuing the request)
StartLoading(lu) ==
    IF ConfigThrows
    THEN Dispatch(isLoading, LoadingAtEnd(TRUE, LoadingAtStart(lu)))
    ELSE Dispatch(isLoading, LoadingAtStart(lu))
ErrorAtStart(cur) == ""
StartError ==
    IF ConfigThrows
    THEN Dispatch(error, ErrorText(ConfigError))
    ELSE Dispatch(error, ErrorAtStart(error))
StartCrashes(lu) == Crashes(trends, StartLoading(lu), StartError)

\* fetchTrends() up to its first suspension, and the render that follows;
\* cause is recorded for the history only
fetchTrendsStart(lu, cause) ==
    /\ started' = started + 1
    /\ lastStart' = now
    /\ startCause' = cause
    /\ soloStart' = (pending = {})
    /\ isLoading' = StartLoading(lu)
    /\ error' = StartError
    /\ mounted' = (mounted /\ ~StartCrashes(lu))
    /\ snap' = IF StartCrashes(lu)
               THEN <<trends, StartLoading(lu), StartError, lastUpdated>>
               ELSE snap
    /\ unmountAt' = IF StartCrashes(lu) THEN now ELSE unmountAt
    /\ UNCHANGED <<trends, lastUpdated, lastAccepted, okCount>>
    /\ IF ConfigThrows
       THEN /\ completed' = completed + 1
            /\ lastResolved' = ConfigError
            /\ doneAfterUnmount' = (doneAfterUnmount \/ ~mounted)
            /\ UNCHANGED <<pending, httpIssued>>
       ELSE /\ pending' = pending \cup {started + 1}
            /\ httpIssued' = httpIssued + 1
            /\ UNCHANGED <<completed, lastResolved, doneAfterUnmount>>

\* ---------------------------------------------------------------- actions
Init ==
    /\ variant \in Versions
    /\ envUrl \in {Undef, "http://api.test"}
    /\ mounted = TRUE
    /\ trends = JsArray(<<>>)
    /\ isLoading = TRUE
    /\ error = ""
    /\ lastUpdated = NullDate
    /\ effectDep = -1
    /\ effectTimer = 0
    /\ timers = {}
    /\ timerSeq = 0
    /\ pending = {}
    /\ started = 0
    /\ now = 0
    /\ httpIssued = 0
    /\ lastStart = 0
    /\ startCause = "none"
    /\ completed = 0
    /\ lastResolved = NoResponse
    /\ lastAccepted = JsArray(<<>>)
    /\ okCount = 0
    /\ snap = <<JsArray(<<>>), TRUE, "", NullDate>>
    /\ unmountAt = 0
    /\ doneAfterUnmount = FALSE
    /\ soloStart = TRUE

\* the effect is due to run: first render, or fetchTrends changed identity
EffectPending == mounted /\ effectDep # FetchTrendsId

\* useEffect(() => {...}, [fetchTrends]): runs after the first render and
\* after every render in which fetchTrends changed identity; the previous
\* run's cleanup runs first
RunEffect ==
    /\ EffectPending
    /\ started < MaxCycles
    /\ fetchTrendsStart(lastUpdated.obj, IF effectDep = -1 THEN "mount" ELSE "rerun")
    /\ timerSeq' = timerSeq + 1
    /\ LET live == clearInterval(timers, effectTimer)
                       \cup {[id |-> timerSeq + 1, due |-> now + IntervalMs,
                              lu |-> lastUpdated.obj]}
       IN timers' = IF StartCrashes(lastUpdated.obj)
                    THEN clearInterval(live, timerSeq + 1)
                    ELSE live
    /\ effectTimer' = timerSeq + 1
    /\ effectDep' = FetchTrendsId
    /\ UNCHANGED <<variant, envUrl, now>>

\* the interval timer t expires and calls the fetchTrends it was given
Tick(t) ==
    /\ t \in timers
    /\ t.due = now
    /\ started < MaxCycles
    /\ fetchTrendsStart(t.lu, "tick")
    /\ LET live == (timers \ {t}) \cup {[t EXCEPT !.due = t.due + IntervalMs]}
       IN timers' = IF StartCrashes(t.lu)
                    THEN clearInterval(live, effectTimer)
                    ELSE live
    /\ UNCHANGED <<variant, envUrl, effectDep, effectTimer, timerSeq, now>>

\* the request of cycle c settles with resp; fetchTrends resumes after the
\* await and runs to its end; then the component renders
Complete(c, resp) ==
    /\ c \in pending
    /\ pending' = pending \ {c}
    /\ LET err == Thrown(resp)
           threw == err.kind # "none"
           t2 == IF threw THEN trends
                 ELSE Dispatch(trends, NextTrends(trends, resp.data))
           u2 == Dispatch(lastUpdated,
                          LastUpdatedAtEnd(threw, lastUpdated, [obj |-> c, at |-> now]))
           e2 == IF threw THEN Dispatch(error, ErrorText(err)) ELSE error
           l2 == Dispatch(isLoading, LoadingAtEnd(threw, isLoading))
           crash == Crashes(t2, l2, e2)
       IN /\ trends' = t2
          /\ lastUpdated' = u2
          /\ error' = e2
          /\ isLoading' = l2
          /\ mounted' = (mounted /\ ~crash)
          /\ timers' = IF crash THEN clearInterval(timers, effectTimer) ELSE timers
          /\ snap' = IF crash THEN <<t2, l2, e2, u2>> ELSE snap
          /\ unmountAt' = IF crash THEN now ELSE unmountAt
    /\ lastAccepted' = IF Accepted(resp) THEN resp.data ELSE lastAccepted
    /\ okCount' = IF Accepted(resp) THEN okCount + 1 ELSE okCount
    /\ completed' = completed + 1
    /\ lastResolved' = resp
    /\ doneAfterUnmount' = (doneAfterUnmount \/ ~mounted)
    /\ UNCHANGED <<variant, envUrl, effectDep, effectTimer, timerSeq, started,
                   now, httpIssued, lastStart, startCause, soloStart>>

\* the component is removed from the tree: the effect's cleanup runs
Unmount ==
    /\ mounted
    /\ ~EffectPending
    /\ mounted' = FALSE
    /\ timers' = clearInterval(timers, effectTimer)
    /\ snap' = PollState
    /\ unmountAt' = now
    /\ UNCHANGED <<variant, envUrl, trends, isLoading, error, lastUpdated,
                   effectDep, effectTimer, timerSeq, pending, started, now,
                   httpIssued, lastStart, startCause, completed, lastResolved,
                   lastAccepted, okCount, doneAfterUnmount, soloStart>>

\* time passes, never beyond the expiry of a live timer; a pending effect
\* runs before the clock moves on
AdvanceTime ==
    /\ now < MaxTime
    /\ ~EffectPending
    /\ LET target == Min({now + TimeStep, MaxTime} \cup {t.due : t \in timers})
       IN /\ target > now
          /\ now' = target
    /\ UNCHANGED <<variant, envUrl, mounted, trends, isLoading, error,
                   lastUpdated, effectDep, effectTimer, timers, timerSeq,
                   pending, started, httpIssued, lastStart, startCause,
                   completed, lastResolved, lastAccepted, okCount, snap,
                   unmountAt, doneAfterUnmount, soloStart>>

TickSome == \E t \in timers : Tick(t)
CompleteSome == \E c \in pending : \E resp \in Responses : Complete(c, resp)

Next ==
    \/ RunEffect
    \/ TickSome
    \/ CompleteSome
    \/ Unmount
    \/ AdvanceTime

Spec == Init /\ [][Next]_vars

\* every issued request eventually settles
FairSpec ==
    /\ Spec
    /\ \A c \in 1..(MaxCycles + 1) : WF_vars(\E resp \in Responses : Complete(c, resp))

TypeOK ==
    /\ variant \in Versions
    /\ mounted \in BOOLEAN
    /\ isLoading \in BOOLEAN
    /\ started \in 0..MaxCycles
    /\ pending \subseteq 1..MaxCycles
    /\ now \in 0..MaxTime

\* ------------------------------------------------------------ properties
\* a step in which a fetch cycle runs to its end
CycleEnds == completed' = completed + 1
\* a step in which fetchTrends is called
CycleStarts == started' = started + 1
\* the outcomes the specification counts as failures of a cycle
FailedOutcome(r) ==
    \/ r.kind \in {"config", "httpError", "network"}
    \/ (r.kind = "http2xx" /\ ~IsArray(r.data))
FailureMessages(r) ==
    {r.respError, r.message, FallbackText, SchemaErrorText} \ {Undef}

\* C1: when a cycle ends in a failure (missing configuration, transport or
\* HTTP failure, non-array payload) after an earlier success, trends is
\* left as it was and error holds the message of that failure.
C1_StaleDataOnError ==
    [][(CycleEnds /\ mounted /\ okCount > 0 /\ FailedOutcome(lastResolved'))
          => (trends' = trends /\ error' # "" /\ error' \in FailureMessages(lastResolved'))]_vars

C3_ConfigUnsetNoRequest ==
    [][(CycleStarts /\ mounted /\ Falsy(envUrl))
          => (error' # "" /\ isLoading' = FALSE /\ httpIssued' = httpIssued)]_vars

\* C4: a 2xx response whose payload is not an array ends the cycle in the
\* error state with the schema message; trends and lastUpdated are kept.
C4_NonArrayRejected ==
    [][(CycleEnds /\ mounted /\ lastResolved'.kind = "http2xx"
            /\ ~IsArray(lastResolved'.data))
          => (error' = SchemaErrorText /\ isLoading' = FALSE
                /\ trends' = trends /\ lastUpdated' = lastUpdated)]_vars

\* C5: a fetch cycle starts only at mount or at an expiry of the interval
\* timer, so two consecutive starts are at least one interval apart.
C5_FixedSchedule ==
    [][CycleStarts
          => (/\ startCause' \in {"mount", "tick"}
              /\ (started = 0 \/ now - lastStart >= IntervalMs))]_vars

\* C6: once the component is unmounted no interval timer is live and no
\* fetch cycle is started and no GET is issued any more.
C6_PollingStopsAtTeardown ==
    [][~mounted' => (/\ timers' = {}
                     /\ (~mounted => (started' = started /\ httpIssued' = httpIssued)))]_vars
C6_Witness ==
    /\ ~mounted
    /\ now >= unmountAt + IntervalMs
    /\ started >= 1
    /\ started < MaxCycles

\* C7: a non-empty error implies that the cycle that ended most recently
\* failed.
C7_ErrorOnlyAfterFailure ==
    (mounted /\ error # "") => (completed > 0 /\ FailedOutcome(lastResolved))

C9_LoadingImpliesOutstanding == (mounted /\ isLoading) => pending # {}
\* C9 as amended: on a mounted component isLoading implies that a fetch is
\* outstanding or that no fetch cycle has been started yet.
C9_LoadingImpliesOutstandingOrUnstarted ==
    (mounted /\ isLoading) => (pending # {} \/ started = 0)
C9_Witness ==
    /\ mounted
    /\ isLoading
    /\ Cardinality(pending) >= 2
    /\ completed >= 1

\* C10: on a mounted component isLoading is false right after any cycle
\* ends, and every started cycle whose request settles reaches such a state.
C10_LoadingClearedAtEnd ==
    /\ [][(CycleEnds /\ mounted) => isLoading' = FALSE]_vars
    /\ \A c \in 1..(MaxCycles + 1) :
          (c \in pending) ~> (~mounted \/ (c \notin pending /\ ~isLoading))
C10_Witness ==
    /\ mounted
    /\ completed >= 2
    /\ pending = {}
    /\ ~isLoading
    /\ lastResolved.kind = "network"

\* the card body and the header as rendered in the current state
View == ViewOf(trends, isLoading, error)
Header == HeaderOf(lastUpdated)

\* C11: once a cycle has completed successfully, starting a later cycle
\* does not turn isLoading on, so the loading indicator does not replace
\* the displayed items while the refresh is in flight.
C11_NoLoadingFlicker ==
    [][(CycleStarts /\ mounted /\ okCount > 0 /\ ~isLoading)
          => (~isLoading' /\ ViewOf(trends', isLoading', error') # "loading")]_vars

\* the message the specification selects for a failure r: the server's
\* error text, else the exception's message, else the generic fallback
SelectedMessage(r) ==
    IF r.respError \notin {Undef, ""} THEN r.respError
    ELSE IF r.message \notin {Undef, ""} THEN r.message
    ELSE FallbackText

\* C12: when a cycle fails, error becomes the first available of the
\* server's error text, the exception's message and the generic fallback,
\* and so is non-empty.
C12_ErrorMessageSelection ==
    [][(CycleEnds /\ mounted /\ lastResolved'.kind \in {"config", "httpError", "network"})
          => (error' = SelectedMessage(lastResolved') /\ error' # "")]_vars

\* the card body the specification's table gives for state cells t, l, e
TableView(t, l, e) ==
    IF l /\ (~IsArray(t) \/ Len(t.elems) = 0) THEN "loading"
    ELSE IF e # "" THEN "error"
    ELSE IF IsArray(t) /\ Len(t.elems) = 0 THEN "placeholder"
    ELSE "list"

\* C13: the card body follows the table: loading indicator when loading
\* with no items yet, else the error message when error is non-empty, else
\* the placeholder when there are no items, else the list.
C13_RenderMapping == mounted => View = TableView(trends, isLoading, error)

\* the <li> entries on screen for state cells t, l, e (none unless the list
\* is what the card shows)
Rendered(t, l, e) == IF ViewOf(t, l, e) = "list" THEN ListOf(t) ELSE <<>>

\* entry en shows item x: its sentiment, its text, and its score to two
\* decimals (or the N/A placeholder when the item has no score)
ShowsItem(en, x) ==
    /\ en.sentiment = x.sentiment
    /\ en.text = x.text
    /\ IF x.score = NoScore
       THEN en.score.na
       ELSE /\ ~en.score.na
            /\ en.score.cents \in 0..99
            /\ 2 * (10 * (100 * en.score.whole + en.score.cents) - x.score) \in -10..10

WellFormed(v) ==
    /\ IsArray(v)
    /\ \A i \in 1..Len(v.elems) : v.elems[i].kind = "object"

\* C14: when a cycle ends with a 2xx array of well-formed items and the
\* card is neither loading nor in error, the list has one entry per item,
\* in response order, each showing its item's sentiment, text and score.
C14_ListMatchesResponse ==
    [][(CycleEnds /\ mounted /\ lastResolved'.kind = "http2xx"
            /\ WellFormed(lastResolved'.data) /\ ~isLoading' /\ error' = "")
          => (/\ ViewOf(trends', isLoading', error') \in {"list", "placeholder"}
              /\ Len(Rendered(trends', isLoading', error')) = Len(lastResolved'.data.elems)
              /\ \A i \in 1..Len(lastResolved'.data.elems) :
                    ShowsItem(Rendered(trends', isLoading', error')[i],
                              lastResolved'.data.elems[i]))]_vars

\* C15: whatever the backend answers, a cycle ends with the card showing
\* the list, the placeholder or the error message; the render never throws.
C15_NeverCrashes ==
    [][(CycleEnds /\ mounted)
          => ViewOf(trends', isLoading', error') \in {"list", "placeholder", "error"}]_vars

\* the cycle ending in this step overlapped no other cycle
EndsAlone == soloStart /\ pending = {started}

\* C16: a cycle start that issues a request clears error; and when the
\* cycle after a failed one overlaps no other and ends with a 2xx array,
\* error is empty, trends is the new payload and the card shows the list
\* or the placeholder.
C16_RecoveryOnNextCycle ==
    [][/\ (CycleStarts /\ mounted /\ pending' # pending) => error' = ""
       /\ (CycleEnds /\ mounted /\ EndsAlone /\ completed > 0
              /\ FailedOutcome(lastResolved) /\ lastResolved'.kind = "http2xx"
              /\ IsArray(lastResolved'.data))
            => (/\ error' = ""
                /\ trends' = lastResolved'.data
                /\ ViewOf(trends', isLoading', error') \in {"list", "placeholder"})]_vars

\* C17: at most one interval timer is live, it is the one created by the
\* latest run of the effect, and none is live after unmount.
C17_AtMostOneTimer ==
    /\ Cardinality(timers) <= 1
    /\ \A t \in timers : t.id = effectTimer
    /\ (~mounted => timers = {})
C17_Witness ==
    /\ mounted
    /\ timerSeq >= 2
    /\ Cardinality(timers) = 1
    /\ completed >= 2

====
